---- MODULE Spec2Model ----
(***************************************************************************)
(* Model of the Sakura x Percolator crank bot (src/crank-bot/index.ts):    *)
(* the scheduler loop, the freshness check, the connection failover and    *)
(* the crank executor with its retry / backoff / blockhash-expiry guard.   *)
(* One action per resumption of the single cooperative thread: each action *)
(* runs the code from the completion of one awaited call up to the next    *)
(* awaited call.                                                           *)
(***************************************************************************)
EXTENDS Integers, Sequences, FiniteSets, TLC

\* ---------------------------------------------------------------- bounds
MaxInvocations == 2
\* invocations explored under fairness (LiveSpec)
MaxLiveInvocations == 1

\* ------------------------------------------------------ program constants
MAX_RETRIES == 5
MAX_FEE_LAMPORTS == 5000000
BASE_DELAY_MS == 1000
PENALTY_THRESHOLD == 3

PRIMARY_RPC_URL == "primary"
FALLBACK_RPC_URL == "fallback"
NoConnection == "none"
\* no transaction is in scope (const tx is local to one pass of the try block)
NoAnchor == <<0, 0>>

\* ------------------------------------------------- inputs from the ledger
Null == -1
\* fee estimates returned by getFeeForMessage: unavailable, exactly the
\* ceiling, above the ceiling
FeeValues == {Null, MAX_FEE_LAMPORTS, 6000000}
\* heights returned by getSlot
Slots == {1000, 1001}
\* messages of the errors a ledger call is rejected with
ErrorMessages == {"BlockhashNotFound", "block height exceeded", "timeout"}

VARIABLES
    pc,                          \* the awaited call the thread is suspended in
    loopConnection,              \* loop(): let connection
    connection,                  \* executeCrankInstruction(): parameter connection
    attempts,                    \* executeCrankInstruction(): let attempts
    delay,                       \* executeCrankInstruction(): let delay
    anchor,                      \* tx.recentBlockhash / lastValidBlockHeight: the attempt that fetched it
    successCount,
    failureCount,
    lastSuccessSlot,
    consecutiveBlockhashErrors,
    \* ---- history variables (observations, never read by the program)
    verdict,                     \* result of the last checkSlabFreshness
    acquired,                    \* the getConnectionWithFailover call that has just returned
    invocations,                 \* executeCrankInstruction calls started so far
    outcome,                     \* how the last invocation ended ("none" while running)
    inFlight,                    \* invocations started and not yet returned
    atPoll,                      \* metrics when the last checkSlabFreshness resolved
    atCheck,                     \* metrics when the fee / simulation result that ended the invocation arrived
    lastFee,                     \* fee estimate of the current attempt
    lastSim,                     \* simulation result of the current attempt
    stepsDone,                   \* steps completed in the current attempt, in order
    sent,                        \* sendRawTransaction calls that returned in this invocation
    failsAfterSend,              \* failures counted for attempts whose send had returned
    observed,                    \* height returned by the getSlot that follows a send
    expiryFails,                 \* expiry-class failures of this invocation
    run,                         \* expiry-class failures in a row (see RunAfter)
    pauseAt,                     \* failure ordinals (1..5) at which a penalty pause began
    waits                        \* backoff waits taken in this invocation, in order

metrics == <<successCount, failureCount, lastSuccessSlot, consecutiveBlockhashErrors>>
locals == <<connection, attempts, delay>>
history == <<verdict, acquired, invocations, outcome, inFlight, atPoll, atCheck, lastFee,
             lastSim, stepsDone, sent, failsAfterSend, observed, expiryFails, run, pauseAt, waits>>
vars == <<pc, loopConnection, locals, anchor, metrics, history>>

ExecutorPcs == {"getLatestBlockhash", "getFeeForMessage", "simulateTransaction",
                "sendRawTransaction", "getSlot", "penaltyPause", "backoff",
                "reconnect"}
LedgerCallPcs == {"getLatestBlockhash", "getFeeForMessage", "simulateTransaction",
                  "sendRawTransaction", "getSlot"}
LoopPcs == {"startup", "checkSlabFreshness", "sleep"}

\* ---------------------------------------------------------- pure helpers
\* line 163: error.message.includes("BlockhashNotFound") || includes("block height exceeded")
IsBlockhashError(msg) == msg = "BlockhashNotFound" \/ msg = "block height exceeded"

\* FeeTooHigh with a seeded fault: an unavailable estimate is treated as a veto
FeeTooHigh_NullVetoes(fee) == fee = Null \/ fee > MAX_FEE_LAMPORTS

\* line 134: feeMetadata.value !== null && feeMetadata.value > MAX_FEE_LAMPORTS
FeeTooHigh(fee) == fee # Null /\ fee > MAX_FEE_LAMPORTS

\* NeedsPenaltyPause with a seeded fault: the threshold off by one
NeedsPenaltyPause_AtTwo(count) == count >= PENALTY_THRESHOLD - 1

\* line 165: consecutiveBlockhashErrors >= 3
NeedsPenaltyPause(count) == count >= PENALTY_THRESHOLD

\* NextDelay with a seeded fault: linear instead of exponential backoff
NextDelay_Linear(d) == d + BASE_DELAY_MS

\* line 183: delay *= 2
NextDelay(d) == d * 2

\* AttemptsRemain with a seeded fault: <= instead of <
AttemptsRemain_OneMore(n) == n <= MAX_RETRIES

\* line 106 / 176: attempts < MAX_RETRIES
AttemptsRemain(n) == n < MAX_RETRIES

\* getConnectionWithFailover with a seeded fault: the catch branch returns the primary again
getConnectionWithFailover_NoFailover(probeOk) == PRIMARY_RPC_URL

\* lines 59-68: the primary when its getSlot probe resolves, else the fallback
getConnectionWithFailover(probeOk) ==
    IF probeOk THEN PRIMARY_RPC_URL ELSE FALLBACK_RPC_URL

RECURSIVE Pow2(_)
Pow2(n) == IF n = 0 THEN 1 ELSE 2 * Pow2(n - 1)

NoAcquire == [caller |-> "none", probeOk |-> FALSE, anyUp |-> FALSE, passed |-> {},
              result |-> NoConnection, probes |-> 0]

\* lines 59-68: one call of getConnectionWithFailover by caller. The primary is
\* probed once with getSlot; the fallback is constructed and returned without
\* a probe, whether or not it is reachable (fallbackUp), and the call never
\* rejects. passed = the endpoints whose probe resolved in this call.
Acquire(caller, probeOk, fallbackUp) ==
    [caller |-> caller,
     probeOk |-> probeOk,
     anyUp |-> probeOk \/ fallbackUp,
     passed |-> IF probeOk THEN {PRIMARY_RPC_URL} ELSE {},
     result |-> getConnectionWithFailover(probeOk),
     probes |-> 1]

\* ------------------------------------------------------------------ Init
Init ==
    /\ pc = "startup"
    /\ loopConnection = NoConnection
    /\ connection = NoConnection
    /\ attempts = 0
    /\ delay = BASE_DELAY_MS
    /\ anchor = NoAnchor
    /\ successCount = 0
    /\ failureCount = 0
    /\ lastSuccessSlot = 0
    /\ consecutiveBlockhashErrors = 0
    /\ verdict = [polled |-> FALSE, readsOk |-> TRUE, stale |-> FALSE, currentSlot |-> 0,
                  oracleSlot |-> 0]
    /\ acquired = NoAcquire
    /\ invocations = 0
    /\ outcome = "none"
    /\ inFlight = 0
    /\ atPoll = metrics
    /\ atCheck = metrics
    /\ lastFee = Null
    /\ lastSim = "none"
    /\ stepsDone = <<>>
    /\ sent = 0
    /\ failsAfterSend = 0
    /\ observed = 0
    /\ expiryFails = 0
    /\ run = 0
    /\ pauseAt = <<>>
    /\ waits = <<>>

\* ------------------------------------------------------- scheduler loop
\* StartInvocation with a seeded fault: the call at line 204 is not awaited,
\* the loop goes on to its interval timer while the invocation is running
StartInvocation_NotAwaited ==
    /\ connection' = loopConnection
    /\ attempts' = 0
    /\ delay' = BASE_DELAY_MS
    /\ pc' = "sleep"
    /\ invocations' = invocations + 1
    /\ outcome' = "none"
    /\ inFlight' = inFlight + 1
    /\ atPoll' = metrics
    /\ atCheck' = metrics
    /\ lastFee' = Null
    /\ lastSim' = "none"
    /\ anchor' = NoAnchor
    /\ stepsDone' = <<>>
    /\ sent' = 0
    /\ failsAfterSend' = 0
    /\ observed' = 0
    /\ expiryFails' = 0
    /\ pauseAt' = <<>>
    /\ waits' = <<>>

\* What every new invocation of executeCrankInstruction starts from
\* (lines 102-106 and the first attempt up to its first awaited call).
StartInvocation ==
    /\ connection' = loopConnection
    /\ attempts' = 0
    /\ delay' = BASE_DELAY_MS
    /\ pc' = "getLatestBlockhash"
    /\ invocations' = invocations + 1
    /\ outcome' = "none"
    /\ inFlight' = inFlight + 1
    /\ atPoll' = metrics
    /\ atCheck' = metrics
    /\ lastFee' = Null
    /\ lastSim' = "none"
    /\ anchor' = NoAnchor
    /\ stepsDone' = <<>>
    /\ sent' = 0
    /\ failsAfterSend' = 0
    /\ observed' = 0
    /\ expiryFails' = 0
    /\ pauseAt' = <<>>
    /\ waits' = <<>>

\* line 196: the probe of the startup getConnectionWithFailover completes
LoopStart ==
    /\ pc = "startup"
    /\ \E probeOk \in BOOLEAN, fallbackUp \in BOOLEAN :
        /\ loopConnection' = getConnectionWithFailover(probeOk)
        /\ acquired' = Acquire("loop", probeOk, fallbackUp)
    /\ pc' = "checkSlabFreshness"
    /\ UNCHANGED <<locals, metrics, verdict, invocations, outcome, inFlight, atPoll, atCheck,
                   lastFee, lastSim, anchor, stepsDone, sent, failsAfterSend, observed, expiryFails,
                   run, pauseAt, waits>>

\* FreshnessVerdict with a seeded fault: a failed read answers "not stale"
FreshnessVerdict_FreshOnError(readsOk, isStale, currentSlot) ==
    IF readsOk
    THEN [polled |-> TRUE, readsOk |-> TRUE, stale |-> isStale,
          currentSlot |-> currentSlot, oracleSlot |-> currentSlot - 5]
    ELSE [polled |-> TRUE, readsOk |-> FALSE, stale |-> FALSE, currentSlot |-> 0,
          oracleSlot |-> 0]

\* lines 70-100: the verdict of one freshness check. readsOk = all three reads
\* resolved and both accounts exist; isStale = Math.random() < 0.2. Every
\* error is caught inside checkSlabFreshness (lines 96-99), none is rethrown.
FreshnessVerdict(readsOk, isStale, currentSlot) ==
    IF readsOk
    THEN [polled |-> TRUE, readsOk |-> TRUE, stale |-> isStale,
          currentSlot |-> currentSlot, oracleSlot |-> currentSlot - 5]
    ELSE [polled |-> TRUE, readsOk |-> FALSE, stale |-> TRUE, currentSlot |-> 0,
          oracleSlot |-> 0]

\* ShouldCrank with a seeded fault: the verdict is ignored
ShouldCrank_Always(v) == TRUE

\* line 202: if (stale)
ShouldCrank(v) == v.stale

\* lines 200-207: checkSlabFreshness resolves; when stale the executor is
\* entered and runs up to its first awaited call, otherwise the loop sleeps.
\* Nothing the iteration calls lets an error escape, so the catch block of
\* lines 208-211 is never entered. maxInvocations bounds the exploration.
PollUpTo(maxInvocations) ==
    /\ pc = "checkSlabFreshness"
    /\ \E readsOk \in BOOLEAN, isStale \in BOOLEAN, currentSlot \in Slots :
        LET v == FreshnessVerdict(readsOk, isStale, currentSlot) IN
        /\ verdict' = v
        /\ IF ShouldCrank(v)
           THEN /\ invocations < maxInvocations
                /\ StartInvocation
           ELSE /\ pc' = "sleep"
                /\ atPoll' = metrics
                /\ UNCHANGED <<locals, invocations, outcome, inFlight, atCheck, lastFee, lastSim, anchor,
                               stepsDone, sent, failsAfterSend, observed, expiryFails,
                               pauseAt, waits>>
    /\ acquired' = NoAcquire
    /\ UNCHANGED <<loopConnection, metrics, run>>

Poll == PollUpTo(MaxInvocations)

PollLive == PollUpTo(MaxLiveInvocations)

\* line 213: the interval timer fires and the next iteration begins. The frame
\* of the invocation that returned is gone and its observations are dropped.
Sleep ==
    /\ pc = "sleep"
    /\ pc' = "checkSlabFreshness"
    /\ connection' = NoConnection
    /\ attempts' = 0
    /\ delay' = BASE_DELAY_MS
    /\ acquired' = NoAcquire
    /\ outcome' = "none"
    /\ atPoll' = metrics
    /\ atCheck' = metrics
    /\ lastFee' = Null
    /\ lastSim' = "none"
    /\ anchor' = NoAnchor
    /\ stepsDone' = <<>>
    /\ sent' = 0
    /\ failsAfterSend' = 0
    /\ observed' = 0
    /\ expiryFails' = 0
    /\ pauseAt' = <<>>
    /\ waits' = <<>>
    /\ UNCHANGED <<loopConnection, metrics, verdict, invocations, inFlight, run>>

\* ------------------------------------------------------- crank executor
\* Return with a seeded fault: retry exhaustion throws out of the loop and the
\* process exits (lines 217-220)
Return_ExitsOnExhaustion(how) ==
    /\ pc' = IF how = "exhausted" THEN "exited" ELSE "sleep"
    /\ outcome' = how
    /\ inFlight' = inFlight - 1

\* the invocation returns to loop(), which goes on to its interval timer
Return(how) ==
    /\ pc' = "sleep"
    /\ outcome' = how
    /\ inFlight' = inFlight - 1

\* GetLatestBlockhash with a seeded fault: the fee guard is skipped, the
\* simulation is requested straight after signing
GetLatestBlockhash_SkipsFeeCheck ==
    /\ pc = "getLatestBlockhash"
    /\ pc' = "simulateTransaction"
    /\ anchor' = <<invocations, attempts>>
    /\ stepsDone' = <<"BUILD">>
    /\ acquired' = NoAcquire
    /\ UNCHANGED <<loopConnection, locals, metrics, verdict, invocations, outcome,
                   inFlight, atPoll, atCheck, lastFee, lastSim, sent, failsAfterSend,
                   observed, expiryFails, run, pauseAt, waits>>

\* GetLatestBlockhash with a seeded fault: the blockhash is fetched once, in
\* the first attempt, and the retries re-sign with that cached anchor
GetLatestBlockhash_CachedAnchor ==
    /\ pc = "getLatestBlockhash"
    /\ pc' = "getFeeForMessage"
    /\ anchor' = <<invocations, 0>>
    /\ stepsDone' = <<"BUILD">>
    /\ acquired' = NoAcquire
    /\ UNCHANGED <<loopConnection, locals, metrics, verdict, invocations, outcome,
                   inFlight, atPoll, atCheck, lastFee, lastSim, sent, failsAfterSend,
                   observed, expiryFails, run, pauseAt, waits>>

\* lines 123-133: getLatestBlockhash resolved: the blockhash and its expiry
\* height are attached to the transaction built in this pass of the loop, the
\* transaction is signed and the fee estimate requested
GetLatestBlockhash ==
    /\ pc = "getLatestBlockhash"
    /\ pc' = "getFeeForMessage"
    /\ anchor' = <<invocations, attempts>>
    /\ stepsDone' = <<"BUILD">>
    /\ acquired' = NoAcquire
    /\ UNCHANGED <<loopConnection, locals, metrics, verdict, invocations, outcome,
                   inFlight, atPoll, atCheck, lastFee, lastSim, sent, failsAfterSend,
                   observed, expiryFails, run, pauseAt, waits>>

\* OnFeeVeto with a seeded fault: the veto is counted like a simulation failure
OnFeeVeto_CountsFailure ==
    /\ failureCount' = failureCount + 1
    /\ UNCHANGED <<successCount, lastSuccessSlot, consecutiveBlockhashErrors>>
    /\ Return("veto")

\* lines 134-137: the estimate is above the ceiling: log and leave the retry
\* loop with break, which returns from the invocation; no metric is touched
OnFeeVeto ==
    /\ UNCHANGED metrics
    /\ Return("veto")

\* lines 133-140: the fee estimate arrived; above the ceiling the loop is
\* left with break and the invocation returns, otherwise the simulation is requested
GetFeeForMessage ==
    /\ pc = "getFeeForMessage"
    /\ \E fee \in FeeValues :
        /\ lastFee' = fee
        /\ stepsDone' = Append(stepsDone, "FEE_CHECK")
        /\ IF FeeTooHigh(fee)
           THEN /\ atCheck' = metrics
                /\ OnFeeVeto
           ELSE /\ pc' = "simulateTransaction"
                /\ UNCHANGED <<outcome, inFlight, atCheck, metrics>>
    /\ UNCHANGED <<loopConnection, locals, verdict, acquired, invocations, atPoll,
                   lastSim, anchor, sent, failsAfterSend, observed, expiryFails, run, pauseAt,
                   waits>>

\* OnSimulationError with a seeded fault: the break is missing, the transaction is sent
OnSimulationError_NoBreak ==
    /\ failureCount' = failureCount + 1
    /\ pc' = "sendRawTransaction"
    /\ UNCHANGED <<outcome, inFlight>>

\* lines 141-146: simResult.value.err is set: count the failure and leave the
\* retry loop with break, which returns from the invocation
OnSimulationError ==
    /\ failureCount' = failureCount + 1
    /\ Return("simulationFailed")

\* lines 140-148: the simulation result arrived; without an error the
\* transaction is sent
SimulateTransaction ==
    /\ pc = "simulateTransaction"
    /\ \E simErr \in BOOLEAN :
        /\ stepsDone' = Append(stepsDone, "SIMULATE")
        /\ IF simErr
           THEN /\ lastSim' = "err"
                /\ atCheck' = metrics
                /\ OnSimulationError
           ELSE /\ lastSim' = "ok"
                /\ pc' = "sendRawTransaction"
                /\ UNCHANGED <<failureCount, outcome, inFlight, atCheck>>
    /\ UNCHANGED <<loopConnection, locals, successCount, lastSuccessSlot,
                   consecutiveBlockhashErrors, verdict, acquired, invocations, atPoll,
                   lastFee, anchor, sent, failsAfterSend, observed, expiryFails, run, pauseAt,
                   waits>>

\* lines 148-151: sendRawTransaction returned a signature; the height is requested
SendRawTransaction ==
    /\ pc = "sendRawTransaction"
    /\ pc' = "getSlot"
    /\ sent' = sent + 1
    /\ stepsDone' = Append(stepsDone, "SUBMIT")
    /\ UNCHANGED <<loopConnection, locals, metrics, verdict, acquired, invocations,
                   outcome, inFlight, atPoll, atCheck, lastFee, lastSim, anchor, failsAfterSend, observed,
                   expiryFails, run, pauseAt, waits>>

\* lines 151-157: getSlot resolved after the send; success metrics, return
RecordSuccess ==
    /\ pc = "getSlot"
    /\ \E currentSlot \in Slots :
        /\ successCount' = successCount + 1
        /\ lastSuccessSlot' = currentSlot
        /\ observed' = currentSlot
    /\ consecutiveBlockhashErrors' = 0
    /\ run' = 0
    /\ Return("success")
    /\ UNCHANGED <<loopConnection, locals, failureCount, verdict, acquired, invocations,
                   atPoll, atCheck, lastFee, lastSim, anchor, stepsDone, sent, failsAfterSend,
                   expiryFails, pauseAt, waits>>

\* lines 174-187: the tail of the catch block, reached directly or after the
\* penalty pause: count the failure, then give up or start the backoff timer
CountFailureAndBackoff ==
    /\ failureCount' = failureCount + 1
    /\ attempts' = attempts + 1
    /\ IF AttemptsRemain(attempts + 1)
       THEN /\ pc' = "backoff"
            /\ waits' = Append(waits, delay)
            /\ UNCHANGED <<outcome, inFlight>>
       ELSE /\ Return("exhausted")
            /\ UNCHANGED waits

\* CountBlockhashError with a seeded fault: the else branch that resets the counter is missing
CountBlockhashError_NoReset(count, msg) ==
    IF IsBlockhashError(msg) THEN count + 1 ELSE count

\* lines 162-172: the consecutive-expiry counter after an error with this message
CountBlockhashError(count, msg) ==
    IF IsBlockhashError(msg) THEN count + 1 ELSE 0

\* lines 159-187: an awaited ledger call of the attempt is rejected with an
\* error carrying msg; the catch block runs up to its first timer
Catch ==
    /\ pc \in LedgerCallPcs
    /\ \E msg \in ErrorMessages :
        LET count == CountBlockhashError(consecutiveBlockhashErrors, msg) IN
        /\ consecutiveBlockhashErrors' = count
        /\ expiryFails' = IF IsBlockhashError(msg) THEN expiryFails + 1 ELSE expiryFails
        /\ run' = IF IsBlockhashError(msg) THEN run + 1 ELSE 0
        /\ failsAfterSend' = IF pc = "getSlot" THEN failsAfterSend + 1 ELSE failsAfterSend
        /\ IF IsBlockhashError(msg) /\ NeedsPenaltyPause(count)
           THEN /\ pc' = "penaltyPause"
                /\ pauseAt' = Append(pauseAt, attempts + 1)
                /\ UNCHANGED <<failureCount, attempts, outcome, inFlight, waits>>
           ELSE /\ CountFailureAndBackoff
                /\ UNCHANGED pauseAt
    /\ lastFee' = Null
    /\ lastSim' = "none"
    /\ anchor' = NoAnchor
    /\ stepsDone' = <<>>
    /\ acquired' = NoAcquire
    /\ UNCHANGED <<loopConnection, connection, delay, successCount, lastSuccessSlot,
                   verdict, invocations, atPoll, atCheck, sent, observed>>

\* lines 167-187: the 30 s penalty timer fires; the counter is reset and the
\* catch block continues
PenaltyPauseDone ==
    /\ pc = "penaltyPause"
    /\ consecutiveBlockhashErrors' = 0
    /\ run' = 0
    /\ CountFailureAndBackoff
    /\ UNCHANGED <<loopConnection, connection, delay, successCount, lastSuccessSlot,
                   verdict, acquired, invocations, atPoll, atCheck, lastFee, lastSim, anchor, stepsDone,
                   sent, failsAfterSend, observed, expiryFails, pauseAt>>

\* lines 182-186: the backoff timer fires; the delay doubles and the primary is probed
BackoffDone ==
    /\ pc = "backoff"
    /\ delay' = NextDelay(delay)
    /\ pc' = "reconnect"
    /\ UNCHANGED <<loopConnection, connection, attempts, anchor, metrics, history>>

\* Reconnect with a seeded fault: the re-acquired connection also replaces the
\* one the loop holds
Reconnect_ReplacesLoopConnection ==
    /\ pc = "reconnect"
    /\ \E probeOk \in BOOLEAN, fallbackUp \in BOOLEAN :
        /\ connection' = getConnectionWithFailover(probeOk)
        /\ loopConnection' = getConnectionWithFailover(probeOk)
        /\ acquired' = Acquire("executor", probeOk, fallbackUp)
    /\ pc' = "getLatestBlockhash"
    /\ UNCHANGED <<attempts, delay, metrics, verdict, invocations,
                   outcome, inFlight, atPoll, atCheck, lastFee, lastSim, anchor, stepsDone, sent, failsAfterSend, observed,
                   expiryFails, run, pauseAt, waits>>

\* lines 186, 106-126: the probe of getConnectionWithFailover completes, the
\* executor's connection is replaced and the next attempt begins
Reconnect ==
    /\ pc = "reconnect"
    /\ \E probeOk \in BOOLEAN, fallbackUp \in BOOLEAN :
        /\ connection' = getConnectionWithFailover(probeOk)
        /\ acquired' = Acquire("executor", probeOk, fallbackUp)
    /\ pc' = "getLatestBlockhash"
    /\ UNCHANGED <<loopConnection, attempts, delay, metrics, verdict, invocations,
                   outcome, inFlight, atPoll, atCheck, lastFee, lastSim, anchor, stepsDone, sent, failsAfterSend, observed,
                   expiryFails, run, pauseAt, waits>>

Next ==
    \/ LoopStart
    \/ Poll
    \/ Sleep
    \/ GetLatestBlockhash
    \/ GetFeeForMessage
    \/ SimulateTransaction
    \/ SendRawTransaction
    \/ RecordSuccess
    \/ Catch
    \/ PenaltyPauseDone
    \/ BackoffDone
    \/ Reconnect

Spec == Init /\ [][Next]_vars

\* The same program explored for fewer invocations, with every awaited call
\* and timer eventually completing (one is pending at any time).
NextLive ==
    \/ LoopStart
    \/ PollLive
    \/ Sleep
    \/ GetLatestBlockhash
    \/ GetFeeForMessage
    \/ SimulateTransaction
    \/ SendRawTransaction
    \/ RecordSuccess
    \/ Catch
    \/ PenaltyPauseDone
    \/ BackoffDone
    \/ Reconnect

LiveSpec == Init /\ [][NextLive]_vars /\ WF_vars(NextLive)

TypeOK ==
    /\ pc \in ExecutorPcs \cup LoopPcs
    /\ attempts \in 0..MAX_RETRIES
    /\ consecutiveBlockhashErrors \in 0..PENALTY_THRESHOLD
    /\ invocations \in 0..MaxInvocations

\* ================================================================ claims
BuildToSubmitPcs == {"getLatestBlockhash", "getFeeForMessage", "simulateTransaction",
                     "sendRawTransaction"}
Returned == outcome # "none"

\* C1: within one invocation at most one sendRawTransaction returns
\* successfully, and once one has returned no BUILD, fee check, simulation or
\* submit of the same invocation is in progress any more.
C1_AtMostOneSubmission ==
    /\ sent <= 1
    /\ sent >= 1 => pc \notin BuildToSubmitPcs

\* C2: when an invocation in which a sendRawTransaction returned has itself
\* returned, successCount has grown by one per submission, no failure was
\* counted for an attempt that had submitted, consecutiveBlockhashErrors is
\* zero and lastSuccessSlot is the height read after the submission.
C2_SuccessRecorded ==
    (Returned /\ sent >= 1) =>
        /\ successCount = atPoll[1] + sent
        /\ failsAfterSend = 0
        /\ consecutiveBlockhashErrors = 0
        /\ observed \in Slots
        /\ lastSuccessSlot = observed

\* C3: a fee estimate above the ceiling ends the invocation in that attempt:
\* only BUILD and FEE_CHECK ran, the invocation has returned to the loop as a
\* veto with no further attempt, and all four metrics are what they were when
\* the estimate arrived.
C3_FeeVetoCleanExit ==
    lastFee > 5000000 =>
        /\ outcome = "veto"
        /\ pc = "sleep"
        /\ stepsDone = <<"BUILD", "FEE_CHECK">>
        /\ sent = 0 \/ failsAfterSend = sent
        /\ attempts = Len(waits)
        /\ metrics = atCheck

C3_Witness ==
    /\ outcome = "veto"
    /\ lastFee = 6000000
    /\ attempts = 2
    /\ failureCount = 2
    /\ consecutiveBlockhashErrors = 1

\* C4: a simulation that reports an execution error ends the invocation in
\* that attempt: SUBMIT is not reached, no further attempt starts, and
\* failureCount is exactly one more than when the result arrived while the
\* other metrics are untouched.
C4_SimulationFailureAborts ==
    lastSim = "err" =>
        /\ outcome = "simulationFailed"
        /\ pc = "sleep"
        /\ stepsDone = <<"BUILD", "FEE_CHECK", "SIMULATE">>
        /\ attempts = Len(waits)
        /\ failureCount = atCheck[2] + 1
        /\ successCount = atCheck[1]
        /\ lastSuccessSlot = atCheck[3]
        /\ consecutiveBlockhashErrors = atCheck[4]

C4_Witness ==
    /\ outcome = "simulationFailed"
    /\ lastSim = "err"
    /\ attempts = 1
    /\ failureCount = 2

\* C5: run counts the expiry-class failures in a row, restarted by an
\* other-class failure, a recorded success and the end of a pause. A penalty
\* pause is in progress exactly when run has reached three, the program's
\* counter equals run, and so is zero after a pause and after any
\* other-class failure.
C5_PauseExactlyAtThree ==
    /\ run \in 0..3
    /\ consecutiveBlockhashErrors = run
    /\ (pc = "penaltyPause") <=> (run = 3)

C5_Witness ==
    /\ pc = "penaltyPause"
    /\ run = 3
    /\ expiryFails = 3
    /\ pauseAt = <<4>>

\* C6 as stated: every invocation starts with the expiry count at zero, and a
\* pause is only taken after three expiry-class failures of the invocation.
C6_ScopedToInvocation ==
    /\ pc \in ExecutorPcs => atPoll[4] = 0
    /\ pc = "penaltyPause" => expiryFails >= 3

\* C6 amended: the expiry count is process-wide. An invocation starts with
\* the count (0, 1 or 2) that the invocations before it left behind, and a
\* pause is taken only when that carried count plus the expiry-class failures
\* of the current invocation has reached three.
C6_CarriedAcrossInvocations ==
    /\ atPoll[4] \in 0..2
    /\ (pc \in ExecutorPcs /\ attempts = 0 /\ pc # "penaltyPause")
          => consecutiveBlockhashErrors = atPoll[4]
    /\ pc = "penaltyPause" => atPoll[4] + expiryFails >= 3

C6_Witness ==
    /\ pc = "penaltyPause"
    /\ expiryFails = 1
    /\ atPoll[4] = 2

C8_BackoffDoubles ==
    /\ \A k \in 1..Len(waits) : waits[k] = 1000 * Pow2(k - 1)
    /\ Len(waits) <= 4
    /\ (pc \in ExecutorPcs /\ pc # "penaltyPause") => Len(waits) = attempts
    /\ outcome = "exhausted" => (Len(waits) = 4 /\ pc = "sleep")

C8_Witness ==
    /\ waits = <<1000, 2000, 4000, 8000>>
    /\ outcome = "exhausted"
    /\ Len(pauseAt) = 1
    /\ expiryFails = 3

\* C9: after a freshness check that answered stale = false the executor is
\* not running (the loop sleeps or polls again) and the metrics are those of
\* the moment the check resolved.
C9_FreshMeansNoCrank ==
    (verdict.polled /\ ~verdict.stale) =>
        /\ pc \in {"sleep", "checkSlabFreshness"}
        /\ outcome = "none"
        /\ stepsDone = <<>>
        /\ sent = 0
        /\ metrics = atPoll

C9_Witness ==
    /\ verdict.polled
    /\ ~verdict.stale
    /\ pc = "sleep"
    /\ invocations = 1
    /\ failureCount > 0

\* C10: the connection an acquire hands out comes from the endpoint list, is
\* the primary when the probe of the primary succeeded and the fallback when
\* it failed, after a single probe of the primary; it is the connection its
\* caller then holds.
C10_SelectorPrefersPrimary ==
    acquired.probes > 0 =>
        /\ acquired.probes = 1
        /\ acquired.result \in {"primary", "fallback"}
        /\ acquired.probeOk => acquired.result = "primary"
        /\ ~acquired.probeOk => acquired.result = "fallback"
        /\ (IF attempts > 0 THEN connection ELSE loopConnection) = acquired.result

C10_Witness ==
    /\ acquired.probes = 1
    /\ ~acquired.probeOk
    /\ attempts > 0
    /\ connection = "fallback"
    /\ loopConnection = "primary"
    /\ pc = "getLatestBlockhash"

\* C11: the connection an acquire returns belongs to an endpoint whose
\* liveness probe resolved in that call, and when no configured endpoint is
\* reachable the call hands out no connection.
C11_ReturnedConnectionValidated ==
    acquired.probes > 0 =>
        /\ acquired.anyUp => acquired.result \in acquired.passed
        /\ ~acquired.anyUp => acquired.result = NoConnection

TerminalOutcomes == {"success", "veto", "simulationFailed", "exhausted"}

\* C12: at most one invocation is in flight; while one is, the thread is
\* inside the executor (also across the backoff wait and the penalty pause),
\* and the loop is back at its timer or its poll only when the invocation it
\* started has returned with a terminal outcome.
C12_OneInvocationInFlight ==
    /\ inFlight \in {0, 1}
    /\ (inFlight = 1) <=> (pc \in ExecutorPcs)
    /\ inFlight = 1 => outcome = "none"
    /\ (pc = "sleep" /\ verdict.polled /\ verdict.stale) => outcome \in TerminalOutcomes

C12_Witness ==
    /\ pc = "penaltyPause"
    /\ inFlight = 1
    /\ invocations = 2
    /\ Len(waits) = 2

StepOrder == <<"BUILD", "FEE_CHECK", "SIMULATE", "SUBMIT">>

\* C13: the steps completed in an attempt are always an initial part of
\* BUILD, FEE_CHECK, SIMULATE, SUBMIT; each awaited call is made after
\* exactly the steps before it, the simulation and the submit only after a
\* fee check of that attempt that did not veto, the submit only after a
\* simulation of that attempt without error.
C13_StepsInOrder ==
    /\ Len(stepsDone) <= 4
    /\ stepsDone = SubSeq(StepOrder, 1, Len(stepsDone))
    /\ pc = "getLatestBlockhash" => stepsDone = <<>>
    /\ pc = "getFeeForMessage" => stepsDone = SubSeq(StepOrder, 1, 1)
    /\ pc = "simulateTransaction" =>
          (stepsDone = SubSeq(StepOrder, 1, 2) /\ lastFee <= 5000000)
    /\ pc = "sendRawTransaction" =>
          (stepsDone = SubSeq(StepOrder, 1, 3) /\ lastFee <= 5000000 /\ lastSim = "ok")
    /\ pc = "getSlot" =>
          (stepsDone = StepOrder /\ lastFee <= 5000000 /\ lastSim = "ok")

C13_Witness ==
    /\ pc = "getSlot"
    /\ stepsDone = StepOrder
    /\ attempts = 3
    /\ lastFee = 5000000

\* C14: with every awaited call and timer eventually completing, the loop
\* polls the freshness oracle again and again, whatever failed before.
C14_LoopKeepsPolling == []<>(pc = "checkSlabFreshness")

C14_Witness ==
    /\ pc = "checkSlabFreshness"
    /\ invocations = 1
    /\ failureCount = 5
    /\ verdict.polled
    /\ ~verdict.readsOk

\* C15: when the loop reaches its interval timer after an iteration in which
\* the freshness read failed or the invocation ended in a simulation failure
\* or retry exhaustion, the call of the connection selector that has just
\* returned is the loop's own, and the loop holds its result.
C15_LoopReacquiresAfterFailure ==
    (/\ pc = "sleep"
     /\ \/ outcome \in {"simulationFailed", "exhausted"}
        \/ (verdict.polled /\ ~verdict.readsOk))
    => (acquired.caller = "loop" /\ loopConnection = acquired.result)

\* C16: a freshness check whose reads failed answers stale with both slots
\* zero, and the iteration runs the executor: until the next poll the thread
\* is inside the executor or back at the timer with a terminal outcome.
C16_ReadFailureMeansStale ==
    (verdict.polled /\ ~verdict.readsOk) =>
        /\ verdict.stale
        /\ verdict.currentSlot = 0
        /\ verdict.oracleSlot = 0
        /\ \/ pc \in ExecutorPcs
           \/ pc = "sleep" /\ outcome \in TerminalOutcomes
           \/ pc = "checkSlabFreshness" /\ invocations > 0

C16_Witness ==
    /\ verdict.polled
    /\ ~verdict.readsOk
    /\ pc = "getLatestBlockhash"
    /\ attempts = 0
    /\ invocations = 2

\* C17: while a call that carries the transaction is pending, the anchor of
\* the transaction was fetched in this attempt of this invocation; no anchor
\* outlives the attempt that fetched it.
C17_AnchorPerAttempt ==
    /\ pc \in {"getFeeForMessage", "simulateTransaction", "sendRawTransaction", "getSlot"}
          => anchor = <<invocations, attempts>>
    /\ anchor # NoAnchor => anchor = <<invocations, attempts>>
    /\ pc \in {"getLatestBlockhash", "penaltyPause", "backoff", "reconnect",
               "checkSlabFreshness"} => anchor = NoAnchor

C17_Witness ==
    /\ pc = "sendRawTransaction"
    /\ anchor = <<2, 3>>

\* C18: an invocation makes at most 5 BUILD attempts, raises successCount by
\* at most 1 and failureCount by at most 5, and, with every awaited call and
\* timer eventually completing, returns with a terminal outcome.
C18_Bounded ==
    /\ attempts <= 5
    /\ pc \in LedgerCallPcs => attempts < 5
    /\ Len(waits) <= 4
    /\ successCount - atPoll[1] \in {0, 1}
    /\ failureCount - atPoll[2] \in 0..5

C18_InvocationTerminates ==
    /\ []C18_Bounded
    /\ (pc \in ExecutorPcs) ~> (pc = "sleep" /\ outcome \in TerminalOutcomes)

C18_Witness ==
    /\ pc = "sleep"
    /\ outcome = "simulationFailed"
    /\ attempts = 4
    /\ failureCount - atPoll[2] = 5

\* C19: no step of the executor changes the connection the loop holds, and
\* every invocation starts on that connection, whatever the executor of an
\* earlier invocation had failed over to.
C19_LoopConnectionUntouched ==
    [][/\ pc \in ExecutorPcs => loopConnection' = loopConnection
       /\ pc \in {"checkSlabFreshness", "sleep"} => loopConnection' = loopConnection
       /\ (pc = "checkSlabFreshness" /\ pc' \in ExecutorPcs) =>
              connection' = loopConnection]_vars

C19_Witness ==
    /\ pc = "sleep"
    /\ outcome = "exhausted"
    /\ connection = "fallback"
    /\ loopConnection = "primary"
    /\ invocations = 2

\* C20: after an unavailable (null) fee estimate the attempt is not vetoed
\* but goes on to the simulation and, the simulation being clean, to the
\* submit; a submit happens only with an estimate that was null or at most the
\* ceiling, and an estimate above the ceiling stops the attempt at the fee check.
C20_NullFeeIsNoVeto ==
    /\ (Len(stepsDone) >= 2 /\ lastFee = Null) =>
          /\ outcome # "veto"
          /\ pc = "simulateTransaction" \/ Len(stepsDone) >= 3
    /\ (Len(stepsDone) >= 3 /\ lastFee = Null /\ lastSim = "ok") =>
          (pc \in {"sendRawTransaction", "getSlot"} \/ outcome = "success")
    /\ Len(stepsDone) = 4 => (lastFee = Null \/ lastFee <= 5000000)
    /\ lastFee > 5000000 => Len(stepsDone) = 2

C20_Witness ==
    /\ pc = "getSlot"
    /\ lastFee = Null
    /\ lastSim = "ok"
    /\ sent = 1

====
